---- MODULE Spec2Model ----
(***************************************************************************)
(* The collection engine narrated by the repository's data-structure       *)
(* tutorials: the compact ordered dict (index table + combined table), the *)
(* over-allocating list, and Timsort.  The tutorials narrate the           *)
(* algorithms in their docstrings; each definition below is translated     *)
(* from the docstring line that states it.  What the tutorials leave       *)
(* unstated (deletion by tombstones, clear) follows the design document    *)
(* and is marked so in MODEL_MAP.json.                                     *)
(***************************************************************************)
EXTENDS Integers, Sequences, FiniteSets, TLC

(***************************************************************************)
(* Bounds of the model                                                     *)
(***************************************************************************)
\* longest combined table (live entries + tombstones) the small map explores
MaxEntries == 8
\* number of distinct dict values
MaxValue == 2
\* turns taken of the tutorial's loop "for i in range(10): d[i] = i * 2"
MaxGrowKey == 8
\* most distinct keys inserted before all of them are removed again
MaxRoundTrip == 11
\* longest combined table (members + tombstones) of the set A and of the set B
MaxSetEntries == 8
MaxOtherEntries == 2
\* largest left operand (5*j + 1 + perturb) and largest mask of a probe step
MaxProbe == 255
MaxMask == 31
\* most appends to the list
MaxAppends == 9
\* longest list under get, set, insert and remove by index
MaxEditLen == 4
\* turns of the loop lst.append(i)
MaxLoopAppends == 100
\* longest enumerated sort input and its largest key
MaxSortLen == 5
MaxSortKey == 3
\* largest key of the two elements put before or after a long run
MaxGallopKey == 14
\* longest list whose minimum run length is computed
MaxRunLen == 130
\* with-statements run one after the other
MaxWiths == 3
\* lengths of the first run of a list of several runs
MinLongRun == 13
MaxLongRun == 16

(***************************************************************************)
(* Program constants                                                       *)
(***************************************************************************)
\* "Starts with size 8"
InitialSize == 8
\* "perturb >>= 5 each iteration"
PERTURB_SHIFT == 5
\* "if used > 50k"
LargeThreshold == 50000
\* INDEX TABLE: [1, -1, 0, -1, 2, -1]: -1 marks an empty index slot
Empty == -1
\* a slot whose entry was removed: walked through, never matched
Deleted == -2
\* absence of a value (an empty optional)
None == -1
\* an allocated list slot that holds no element
Unused == 0
\* consecutive wins of one run after which a merge gallops
MIN_GALLOP == 7
\* what an insert reports when the new index cannot be allocated
OutOfMemory == -3
\* the one value of a set's entries: a set stores only keys
Unit == 0

VARIABLES
    index_table,  \* Sparse Index: slot -> Empty | Deleted | position in combined
    combined,     \* Combined Table: sequence of [hash, key, value, state]
    used,         \* number of live entries
    ret,          \* result of the last dict operation (None or a value)
    hung,         \* TRUE once a probe walk failed to return
    shadow,       \* ghost: key -> value most recently set, or None
    order         \* ghost: live keys by the time of their latest first insertion

dictVars == <<index_table, combined, used, ret, hung, shadow, order>>

VARIABLES
    ob_item,      \* the list's array of allocated slots
    ob_size,      \* current number of items
    allocated,    \* number of slots available
    appended,     \* ghost: the values appended so far, in call order
    list_call     \* the last list call: [op, i, x, err]

listVars == <<ob_item, ob_size, allocated, appended, list_call>>

VARIABLES
    data,         \* the list being sorted: elements <<key, position in the input>>
    pending,      \* stack of pending runs [base, len], top last
    lo,           \* first index not yet in a run
    minrun,       \* minimum run length of this sort
    pc,           \* "idle" | "run" | "collapse" | "force" | "done"
    input,        \* ghost: the list as it was handed to the first sort
    first,        \* ghost: the result of the first sort
    round,        \* 1 for the first sort of the input, 2 for the sort of its result
    cmp,          \* the comparator of this sort
    plain         \* the same list sorted by the same steps with galloping omitted

sortVars == <<data, pending, lo, minrun, pc, input, first, round, cmp, plain>>

VARIABLES
    set_a,        \* the set A: a map value [index_table, combined, used]
    set_b,        \* the set B
    members_a,    \* ghost: the keys added to A and not removed since
    members_b,    \* ghost: the same for B
    set_hung,     \* TRUE once a set operation failed to return
    algebra       \* the results of the last A | B, B | A, A & B, B & A, A - B

setVars == <<set_a, set_b, members_a, members_b, set_hung, algebra>>

VARIABLES
    withs         \* the with-statements run so far, the last one maybe under way

withVars == <<withs>>

(***************************************************************************)
(* Keys and hashing                                                        *)
(***************************************************************************)
IntKey(n) == [kind |-> "int", value |-> n]
BadHash(v) == [kind |-> "BadHash", value |-> v]

\* len(str(value)) for the non-negative values used here
StrLen(v) == IF v < 10 THEN 1 ELSE IF v < 100 THEN 2 ELSE 3

\* "For integers: hash(x) = x"; BadHash.__hash__ returns len(str(self.value))
Hash(k) == IF k.kind = "int" THEN k.value ELSE StrLen(k.value)

\* keys of the small map: BadHash(1) and BadHash(2) share hash 1; the integer
\* 33 shares their first two slots of an 8-slot index and then leaves their
\* walk, because its perturb is still 1 when theirs is 0
SmallKeys == {BadHash(1), BadHash(2), IntKey(33)}
GrowKeys == {IntKey(n) : n \in 0..(MaxGrowKey - 1)}
RoundTripKeys == {IntKey(n) : n \in 0..(MaxRoundTrip - 1)}
Values == 1..MaxValue
\* members of the sets: 1 and 9 share slot 1 of an 8-slot index
SetKeys == {IntKey(1), IntKey(9), IntKey(2)}

(***************************************************************************)
(* Probing                                                                 *)
(***************************************************************************)
RECURSIVE BitAndOf(_, _)
BitAndOf(x, y) ==
    IF x = 0 \/ y = 0 THEN 0
    ELSE (x % 2) * (y % 2) + 2 * BitAndOf(x \div 2, y \div 2)

\* x & y, tabulated once for the operands the probe walk can produce
BitAndTable == [x \in 0..MaxProbe |-> [y \in 0..MaxMask |-> BitAndOf(x, y)]]

BitAnd(x, y) == BitAndTable[x][y]

ShiftRight(x, n) == x \div (2 ^ n)

\* mask of an index of the given size
Mask(size) == size - 1

\* j = (5*j + 1 + perturb) & mask
NextSlot(j, perturb, mask) == BitAnd(5 * j + 1 + perturb, mask)

EntryAt(ents, i) == ents[i + 1]

MatchesHashOnly(ents, s, key) ==
    EntryAt(ents, s).state = "Live" /\ EntryAt(ents, s).hash = Hash(key)

\* the slot's entry holds the equal key: equal hashes are not enough, the
\* keys are compared with __eq__
Matches(ents, s, key) ==
    EntryAt(ents, s).state = "Live" /\ EntryAt(ents, s).key = key

\* The probe walk for key from slot j.  It stops at the first Empty slot or at
\* the slot of the equal live key.  Once perturb is 0 the walk is a fixed
\* function of j, so a walk that has taken more than mask + 1 further steps
\* revisits slots for ever: it never returns.
RECURSIVE Walk(_, _, _, _, _, _, _)
Walk(idx, ents, mask, key, j, perturb, n) ==
    LET s == idx[j] IN
    IF s = Empty THEN [kind |-> "empty", slot |-> j]
    ELSE IF s # Deleted /\ Matches(ents, s, key)
         THEN [kind |-> "found", slot |-> j]
    ELSE IF n > mask + 1 THEN [kind |-> "diverge", slot |-> j]
    ELSE Walk(idx, ents, mask, key, NextSlot(j, perturb, mask),
              ShiftRight(perturb, PERTURB_SHIFT),
              IF perturb = 0 THEN n + 1 ELSE n)

\* probe for key: start at h & mask with perturb = h
Lookup(idx, ents, key) ==
    LET mask == Mask(Cardinality(DOMAIN idx)) IN
    Walk(idx, ents, mask, key, BitAnd(Hash(key), mask), Hash(key), 0)

(***************************************************************************)
(* Resizing                                                                *)
(***************************************************************************)
NeedsResizeWhenFull(n, size) == n >= size

\* "Resizes when load factor reaches 2/3"
NeedsResize(n, size) == 3 * n >= 2 * size

\* "New size = 4 * used_slots (if used > 50k, else 2 * used_slots)"
NewSize(n) == IF n > LargeThreshold THEN 4 * n ELSE 2 * n

EmptyIndex(size) == [j \in 0..(size - 1) |-> Empty]

\* re-probe every live entry, in combined-table order, into idx
RECURSIVE Reinsert(_, _, _)
Reinsert(idx, ents, i) ==
    IF i >= Len(ents) THEN [ok |-> TRUE, idx |-> idx]
    ELSE IF EntryAt(ents, i).state # "Live" THEN Reinsert(idx, ents, i + 1)
    ELSE LET r == Lookup(idx, ents, EntryAt(ents, i).key) IN
         IF r.kind # "empty" THEN [ok |-> FALSE, idx |-> idx]
         ELSE Reinsert([idx EXCEPT ![r.slot] = i], ents, i + 1)

RebuildKeepsDeleted(ents, size) ==
    Reinsert([EmptyIndex(size) EXCEPT ![size - 1] = Deleted], ents, 0)

Rebuild(ents, size) == Reinsert(EmptyIndex(size), ents, 0)

(***************************************************************************)
(* Dict operations                                                         *)
(***************************************************************************)
StoreEntryFirst(ents, e) == <<e>> \o ents

\* "Combined Table: Stores [hash, key, value] sequentially"
StoreEntry(ents, e) == Append(ents, e)

EntryRefOffByOne(ents) == Len(ents) + 1

\* the index slot of a new entry holds its position in the combined table
EntryRef(ents) == Len(ents)

\* what remove leaves in the index slot of the removed key
SlotAfterRemove == Deleted

LiveEntry(k, v) == [hash |-> Hash(k), key |-> k, value |-> v, state |-> "Live"]

\* the record left in the combined table by a removal: key and value are
\* handed back, nothing reads the slot again
Tombstone == [hash |-> 0, key |-> [kind |-> "none", value |-> 0],
              value |-> None, state |-> "Tombstone"]

Hang == /\ hung' = TRUE
        /\ UNCHANGED <<index_table, combined, used, ret, shadow, order>>

\* number of slots of the index table
cap_idx == Cardinality(DOMAIN index_table)

DictInit ==
    /\ index_table = EmptyIndex(InitialSize)
    /\ combined = <<>>
    /\ used = 0
    /\ ret = None
    /\ hung = FALSE
    /\ shadow = [k \in SmallKeys \cup GrowKeys \cup RoundTripKeys |-> None]
    /\ order = <<>>

\* the map held in the dict variables
TheMap == [index_table |-> index_table, combined |-> combined, used |-> used]

Capacity(m) == Cardinality(DOMAIN m.index_table)

\* m[k] = v on a map value m.  ok is FALSE when the probe walk does not return;
\* fresh tells a new key from an update; old is the value replaced
MapInsert(m, k, v) ==
    LET r == Lookup(m.index_table, m.combined, k) IN
    CASE r.kind = "diverge" ->
           [ok |-> FALSE, map |-> m, fresh |-> FALSE, old |-> None]
      [] r.kind = "found" ->
           LET i == m.index_table[r.slot] IN
           [ok |-> TRUE,
            map |-> [m EXCEPT !.combined[i + 1].value = v],
            fresh |-> FALSE,
            old |-> EntryAt(m.combined, i).value]
      [] r.kind = "empty" ->
           LET ents == StoreEntry(m.combined, LiveEntry(k, v))
               idx == [m.index_table EXCEPT ![r.slot] = EntryRef(m.combined)]
               n == m.used + 1
               re == Rebuild(ents, NewSize(n))
           IN
           IF NeedsResize(n, Capacity(m)) /\ ~re.ok
           THEN [ok |-> FALSE, map |-> m, fresh |-> FALSE, old |-> None]
           ELSE [ok |-> TRUE,
                 map |-> [index_table |-> IF NeedsResize(n, Capacity(m))
                                          THEN re.idx ELSE idx,
                          combined |-> ents,
                          used |-> n],
                 fresh |-> TRUE,
                 old |-> None]

\* m.get(k) on a map value
MapGet(m, k) ==
    LET r == Lookup(m.index_table, m.combined, k) IN
    CASE r.kind = "diverge" -> [ok |-> FALSE, found |-> FALSE, value |-> None]
      [] r.kind = "found" ->
           [ok |-> TRUE, found |-> TRUE,
            value |-> EntryAt(m.combined, m.index_table[r.slot]).value]
      [] r.kind = "empty" -> [ok |-> TRUE, found |-> FALSE, value |-> None]

\* m.pop(k, None) on a map value
MapRemove(m, k) ==
    LET r == Lookup(m.index_table, m.combined, k) IN
    CASE r.kind = "diverge" ->
           [ok |-> FALSE, map |-> m, found |-> FALSE, old |-> None]
      [] r.kind = "found" ->
           LET i == m.index_table[r.slot] IN
           [ok |-> TRUE,
            map |-> [index_table |-> [m.index_table EXCEPT ![r.slot] = SlotAfterRemove],
                     combined |-> [m.combined EXCEPT ![i + 1] = Tombstone],
                     used |-> m.used - 1],
            found |-> TRUE,
            old |-> EntryAt(m.combined, i).value]
      [] r.kind = "empty" ->
           [ok |-> TRUE, map |-> m, found |-> FALSE, old |-> None]

\* d[k] = v
Insert(k, v, maxLen) ==
    /\ ~hung
    /\ \E r \in {MapInsert(TheMap, k, v)} :
       IF ~r.ok THEN Hang
       ELSE /\ r.fresh => Len(combined) < maxLen
            /\ index_table' = r.map.index_table
            /\ combined' = r.map.combined
            /\ used' = r.map.used
            /\ ret' = r.old
            /\ shadow' = [shadow EXCEPT ![k] = v]
            /\ order' = IF r.fresh THEN Append(order, k) ELSE order
            /\ UNCHANGED hung

\* d[k] = v when the resize it triggers cannot allocate the new index: the
\* entry is already stored and referenced, the resize is not committed and
\* the old index stays in use
InsertOutOfMemory(k, v, maxLen) ==
    /\ ~hung
    /\ \E r \in {Lookup(index_table, combined, k)} :
          /\ r.kind = "empty"
          /\ Len(combined) < maxLen
          /\ NeedsResize(used + 1, cap_idx)
          /\ combined' = StoreEntry(combined, LiveEntry(k, v))
          /\ index_table' = [index_table EXCEPT ![r.slot] = EntryRef(combined)]
          /\ used' = used + 1
          /\ ret' = OutOfMemory
          /\ shadow' = [shadow EXCEPT ![k] = v]
          /\ order' = Append(order, k)
          /\ UNCHANGED hung

\* d.get(k)
Get(k) ==
    /\ ~hung
    /\ \E r \in {MapGet(TheMap, k)} :
       IF ~r.ok THEN Hang
       ELSE /\ ret' = r.value
            /\ UNCHANGED <<index_table, combined, used, hung, shadow, order>>

RemoveKey(seq, k) == SelectSeq(seq, LAMBDA x : x # k)

\* d.pop(k, None)
Remove(k) ==
    /\ ~hung
    /\ \E r \in {MapRemove(TheMap, k)} :
       IF ~r.ok THEN Hang
       ELSE /\ index_table' = r.map.index_table
            /\ combined' = r.map.combined
            /\ used' = r.map.used
            /\ ret' = r.old
            /\ shadow' = IF r.found THEN [shadow EXCEPT ![k] = None] ELSE shadow
            /\ order' = IF r.found THEN RemoveKey(order, k) ELSE order
            /\ UNCHANGED hung

\* d.clear()
Clear ==
    /\ ~hung
    /\ index_table' = EmptyIndex(InitialSize)
    /\ combined' = <<>>
    /\ used' = 0
    /\ ret' = None
    /\ shadow' = [k \in DOMAIN shadow |-> None]
    /\ order' = <<>>
    /\ UNCHANGED hung

\* keys(), values(), items(): combined-table order, tombstones skipped
LiveEntries(ents) == SelectSeq(ents, LAMBDA e : e.state = "Live")
keys(ents) == [i \in 1..Len(LiveEntries(ents)) |-> LiveEntries(ents)[i].key]
items(ents) ==
    [i \in 1..Len(LiveEntries(ents)) |->
        <<LiveEntries(ents)[i].key, LiveEntries(ents)[i].value>>]

\* the value get(k) returns in the current state; None when absent.
\* A walk that does not return yields -2, which is no value.
get(k) ==
    LET r == Lookup(index_table, combined, k) IN
    IF r.kind = "found" THEN EntryAt(combined, index_table[r.slot]).value
    ELSE IF r.kind = "empty" THEN None
    ELSE -2

(***************************************************************************)
(* Set: a map that stores only keys                                        *)
(***************************************************************************)
EmptySet == [index_table |-> EmptyIndex(InitialSize), combined |-> <<>>, used |-> 0]

\* s.add(k): ret is TRUE when k is newly inserted
SetAdd(s, k) ==
    LET r == MapInsert(s, k, Unit) IN [ok |-> r.ok, set |-> r.map, ret |-> r.fresh]

\* s.remove(k): ret is TRUE when k was a member
SetRemove(s, k) ==
    LET r == MapRemove(s, k) IN [ok |-> r.ok, set |-> r.map, ret |-> r.found]

\* k in s
SetContains(s, k) ==
    LET r == MapGet(s, k) IN [ok |-> r.ok, ret |-> r.found]

\* len(s)
SetLen(s) == s.used

\* iteration: the members in insertion order
SetItems(s) == keys(s.combined)

\* for item in ks[i ..]: result.add(item)
RECURSIVE AddAll(_, _, _)
AddAll(res, ks, i) ==
    IF ~res.ok \/ i > Len(ks) THEN res
    ELSE LET r == SetAdd(res.set, ks[i]) IN
         AddAll([ok |-> r.ok, set |-> r.set], ks, i + 1)

\* for item in ks[i ..]: if (item in other) = wanted: result.add(item)
RECURSIVE AddWhere(_, _, _, _, _)
AddWhere(res, ks, i, other, wanted) ==
    IF ~res.ok \/ i > Len(ks) THEN res
    ELSE LET c == SetContains(other, ks[i]) IN
         IF ~c.ok THEN [ok |-> FALSE, set |-> res.set]
         ELSE IF c.ret = wanted
              THEN LET r == SetAdd(res.set, ks[i]) IN
                   AddWhere([ok |-> r.ok, set |-> r.set], ks, i + 1, other, wanted)
         ELSE AddWhere(res, ks, i + 1, other, wanted)

\* the operand a set operation iterates, and the other one
Smaller(a, b) == IF SetLen(b) < SetLen(a) THEN b ELSE a
Larger(a, b) == IF SetLen(b) < SetLen(a) THEN a ELSE b

\* Union (A | B): iterate through smaller set, add to (a copy of) larger
SetUnion(a, b) ==
    AddAll([ok |-> TRUE, set |-> Larger(a, b)], SetItems(Smaller(a, b)), 1)

\* Intersection (A & B): iterate through smaller set, check membership in larger
SetIntersection(a, b) ==
    AddWhere([ok |-> TRUE, set |-> EmptySet], SetItems(Smaller(a, b)), 1,
             Larger(a, b), TRUE)

\* Difference (A - B): iterate through A, exclude items in B
SetDifference(a, b) ==
    AddWhere([ok |-> TRUE, set |-> EmptySet], SetItems(a), 1, b, FALSE)

NoAlgebra == [done |-> FALSE]

SetInit ==
    /\ set_a = EmptySet
    /\ set_b = EmptySet
    /\ members_a = {}
    /\ members_b = {}
    /\ set_hung = FALSE
    /\ algebra = NoAlgebra

\* A.add(k)
AddA(k) ==
    /\ ~set_hung
    /\ \E r \in {SetAdd(set_a, k)} :
          /\ r.ret => Len(set_a.combined) < MaxSetEntries
          /\ set_a' = r.set
          /\ members_a' = IF r.ok THEN members_a \cup {k} ELSE members_a
          /\ set_hung' = ~r.ok
    /\ algebra' = NoAlgebra
    /\ UNCHANGED <<set_b, members_b>>

\* A.remove(k)
RemoveA(k) ==
    /\ ~set_hung
    /\ \E r \in {SetRemove(set_a, k)} :
          /\ set_a' = r.set
          /\ members_a' = IF r.ok THEN members_a \ {k} ELSE members_a
          /\ set_hung' = ~r.ok
    /\ algebra' = NoAlgebra
    /\ UNCHANGED <<set_b, members_b>>

\* k in A
ContainsA(k) ==
    /\ ~set_hung
    /\ set_hung' = ~SetContains(set_a, k).ok
    /\ UNCHANGED <<set_a, set_b, members_a, members_b, algebra>>

\* B.add(k)
AddB(k) ==
    /\ ~set_hung
    /\ \E r \in {SetAdd(set_b, k)} :
          /\ r.ret => Len(set_b.combined) < MaxOtherEntries
          /\ set_b' = r.set
          /\ members_b' = IF r.ok THEN members_b \cup {k} ELSE members_b
          /\ set_hung' = ~r.ok
    /\ algebra' = NoAlgebra
    /\ UNCHANGED <<set_a, members_a>>

\* B.remove(k)
RemoveB(k) ==
    /\ ~set_hung
    /\ \E r \in {SetRemove(set_b, k)} :
          /\ set_b' = r.set
          /\ members_b' = IF r.ok THEN members_b \ {k} ELSE members_b
          /\ set_hung' = ~r.ok
    /\ algebra' = NoAlgebra
    /\ UNCHANGED <<set_a, members_a>>

\* union_result = set1 | set2; intersection_result = set1 & set2; and the
\* same with the operands exchanged; set1 - set2 and set2 - set1.  Each
\* result is a new set;
\* a result that is not ok is a call that did not return
Algebra ==
    /\ ~set_hung
    /\ ~algebra.done
    /\ \E r \in {[done |-> TRUE,
                   union |-> SetUnion(set_a, set_b),
                   unionRev |-> SetUnion(set_b, set_a),
                   inter |-> SetIntersection(set_a, set_b),
                   interRev |-> SetIntersection(set_b, set_a),
                   diff |-> SetDifference(set_a, set_b),
                   diffRev |-> SetDifference(set_b, set_a)]} :
          /\ algebra' = r
          /\ set_hung' = ~(r.union.ok /\ r.unionRev.ok /\ r.inter.ok
                             /\ r.interRev.ok /\ r.diff.ok /\ r.diffRev.ok)
    /\ UNCHANGED <<set_a, set_b, members_a, members_b>>

(***************************************************************************)
(* List                                                                    *)
(***************************************************************************)
\* the last call on the list: its operation, index, value and error; was is
\* a ghost, the elements an insert found, kept for the remove that follows
ListCall(op, i, x, err) ==
    [op |-> op, i |-> i, x |-> x, err |-> err, was |-> <<>>]

ListInit ==
    /\ ob_item = <<>>
    /\ ob_size = 0
    /\ allocated = 0
    /\ appended = <<>>
    /\ list_call = ListCall("none", 0, Unused, "none")

\* "allocates new_size = (old_size >> 1) + old_size + 3"
NewAllocatedHalf(newsize) == ShiftRight(newsize, 1) + newsize + 3

\* new_allocated = (newsize >> 3) + (newsize < 9 ? 3 : 6); new_allocated += newsize
NewAllocated(newsize) ==
    ShiftRight(newsize, 3) + (IF newsize < 9 THEN 3 ELSE 6) + newsize

ReallocDropLast(old, n, newcap) ==
    [i \in 1..newcap |-> IF i < n THEN old[i] ELSE Unused]

\* reallocate: the n items move to an array of newcap slots
Realloc(old, n, newcap) ==
    [i \in 1..newcap |-> IF i <= n THEN old[i] ELSE Unused]

NeedsGrowAboveFull(n, alloc) == n > alloc

NeedsGrowEarly(n, alloc) == n + 1 >= alloc

\* "Check if resize needed": no free slot is left
NeedsGrow(n, alloc) == n = alloc

\* list_append: check if resize needed, reallocate with growth factor, set new
\* item at end, increment size
ListAppend(x, maxLen) ==
    /\ ob_size < maxLen
    /\ LET newsize == ob_size + 1
           grow == NeedsGrow(ob_size, allocated)
           cap == IF grow THEN NewAllocated(newsize) ELSE allocated
           slots == IF grow THEN Realloc(ob_item, ob_size, cap) ELSE ob_item
       IN
       /\ allocated' = cap
       /\ ob_item' = [slots EXCEPT ![newsize] = x]
       /\ ob_size' = newsize
    /\ appended' = Append(appended, x)
    /\ list_call' = ListCall("append", ob_size, x, "none")

\* an index that names an element
ValidIndex(i, n) == i >= 0 /\ i < n

\* an index an element can be inserted at: any element's, or the end
InsertIndex(i, n) == i >= 0 /\ i <= n

\* lst[i], 0-based; -1 stands for IndexError
list_get(i) == IF ValidIndex(i, ob_size) THEN ob_item[i + 1] ELSE -1

\* the call failed: nothing changes but the record of the call
ListFails(op, i, x) ==
    /\ list_call' = ListCall(op, i, x, "IndexOutOfRange")
    /\ UNCHANGED <<ob_item, ob_size, allocated, appended>>

\* x = lst[i]
ListGet(i) ==
    IF ValidIndex(i, ob_size)
    THEN /\ list_call' = ListCall("get", i, ob_item[i + 1], "none")
         /\ UNCHANGED <<ob_item, ob_size, allocated, appended>>
    ELSE ListFails("get", i, Unused)

\* lst[i] = x
ListSet(i, x) ==
    IF ValidIndex(i, ob_size)
    THEN /\ ob_item' = [ob_item EXCEPT ![i + 1] = x]
         /\ appended' = [appended EXCEPT ![i + 1] = x]
         /\ list_call' = ListCall("set", i, x, "none")
         /\ UNCHANGED <<ob_size, allocated>>
    ELSE ListFails("set", i, x)

\* shift the elements from position i on one slot up and put x at i
ShiftUp(slots, i, n, x) ==
    [j \in DOMAIN slots |->
        IF j = i + 1 THEN x
        ELSE IF j > i + 1 /\ j <= n + 1 THEN slots[j - 1]
        ELSE slots[j]]

ShiftDownFromBelow(slots, i, n) ==
    [j \in DOMAIN slots |->
        IF j >= i /\ j < n THEN slots[j + 1]
        ELSE IF j = n THEN Unused
        ELSE slots[j]]

\* shift the elements after position i one slot down
ShiftDown(slots, i, n) ==
    [j \in DOMAIN slots |->
        IF j > i /\ j < n THEN slots[j + 1]
        ELSE IF j = n THEN Unused
        ELSE slots[j]]

\* the sequence s with x put in at 0-based position i, and with position i
\* taken out
SeqInsert(s, i, x) == SubSeq(s, 1, i) \o <<x>> \o SubSeq(s, i + 1, Len(s))
SeqRemove(s, i) == SubSeq(s, 1, i) \o SubSeq(s, i + 2, Len(s))

\* list_insert: may trigger reallocation; shift all elements after the
\* insertion point
ListInsert(i, x, maxLen) ==
    IF InsertIndex(i, ob_size)
    THEN /\ ob_size < maxLen
         /\ LET newsize == ob_size + 1
                grow == NeedsGrow(ob_size, allocated)
                cap == IF grow THEN NewAllocated(newsize) ELSE allocated
                slots == IF grow THEN Realloc(ob_item, ob_size, cap) ELSE ob_item
            IN
            /\ allocated' = cap
            /\ ob_item' = ShiftUp(slots, i, ob_size, x)
            /\ ob_size' = newsize
         /\ appended' = SeqInsert(appended, i, x)
         /\ list_call' = [ListCall("insert", i, x, "none")
                               EXCEPT !.was = SubSeq(ob_item, 1, ob_size)]
    ELSE ListFails("insert", i, x)

\* delete by index: shift the elements after the deletion point, decrement size
ListRemove(i) ==
    IF ValidIndex(i, ob_size)
    THEN /\ ob_item' = ShiftDown(ob_item, i, ob_size)
         /\ ob_size' = ob_size - 1
         /\ appended' = SeqRemove(appended, i)
         /\ list_call' = ListCall("remove", i, ob_item[i + 1], "none")
         /\ UNCHANGED allocated
    ELSE ListFails("remove", i, Unused)

\* lst.clear(): no element is left; the array is kept or given back
ListClear ==
    /\ ob_size' = 0
    /\ appended' = <<>>
    /\ \E keep \in BOOLEAN :
          /\ allocated' = IF keep THEN allocated ELSE 0
          /\ ob_item' = IF keep THEN [j \in DOMAIN ob_item |-> Unused] ELSE <<>>
    /\ list_call' = ListCall("clear", 0, Unused, "none")

(***************************************************************************)
(* Timsort                                                                 *)
(***************************************************************************)
\* the comparators: the order of the keys; the order of the keys halved,
\* under which 2 and 3, 4 and 5, ... are equal; a reflexive one; one that is
\* not transitive (1 < 2 < 3 < 1 on the residues of 3); one under which a key
\* is less than the next two keys only
Comparators == {"lt", "half", "le", "cyclic", "near"}

Compare(c, x, y) ==
    CASE c = "lt" -> x < y
      [] c = "half" -> (x \div 2) < (y \div 2)
      [] c = "le" -> x <= y
      [] c = "cyclic" -> (y - x) % 3 = 1
      [] c = "near" -> x < y /\ y <= x + 2

\* c is a consistent order of the keys (a strict weak order): nothing is less
\* than itself, less-than is transitive, and so is being neither less nor
\* greater
Consistent(c) ==
    LET K == 1..MaxGallopKey
        Tie(x, y) == ~Compare(c, x, y) /\ ~Compare(c, y, x)
    IN /\ \A x \in K : ~Compare(c, x, x)
       /\ \A x, y, z \in K :
             /\ (Compare(c, x, y) /\ Compare(c, y, z)) => Compare(c, x, z)
             /\ (Tie(x, y) /\ Tie(y, z)) => Tie(x, z)

ConsistentComparators == {c \in Comparators : Consistent(c)}

\* elements are compared by key alone
Less(x, y) == Compare(cmp, x[1], y[1])

\* minrun = n//64 + (1 if n%64 else 0)
MinRun(n) == (n \div 64) + (IF n % 64 # 0 THEN 1 ELSE 0)

\* the design document's minimum run length: halve n until it is below 64,
\* adding 1 if any bit was shifted out
RECURSIVE ClassicMinRun(_, _)
ClassicMinRun(n, r) ==
    IF n < 64 THEN n + r
    ELSE ClassicMinRun(n \div 2, IF n % 2 = 1 THEN 1 ELSE r)

\* The two narrations of the minimum run length disagree for every n: the run
\* loop is explored under each, so that nothing proved of it rests on one.
MinRunChoices(n) == {MinRun(n), ClassicMinRun(n, 0)}

LessOrEqual(x, y) == x[1] <= y[1]

DescendsOrEqual(x, y) == ~Less(x, y)

\* a run is decreasing when each element is strictly less than the one before
Descends(x, y) == Less(y, x)

\* last index of the run of s that starts at i and ends by hi
RECURSIVE RunEnd(_, _, _, _)
RunEnd(s, i, hi, desc) ==
    IF i >= hi THEN i
    ELSE IF desc /\ Descends(s[i], s[i + 1]) THEN RunEnd(s, i + 1, hi, desc)
    ELSE IF ~desc /\ ~Descends(s[i], s[i + 1]) THEN RunEnd(s, i + 1, hi, desc)
    ELSE i

\* run detection: the run that starts at l, and whether it is decreasing
CountRun(s, l) ==
    LET hi == Len(s)
        desc == l < hi /\ Descends(s[l], s[l + 1])
    IN [len |-> RunEnd(s, l, hi, desc) - l + 1, desc |-> desc]

\* reverse s[l .. l + n - 1] in place
ReverseSlice(s, l, n) ==
    [i \in 1..Len(s) |-> IF i >= l /\ i < l + n THEN s[2 * l + n - 1 - i] ELSE s[i]]

\* binary search in sorted s[l .. r - 1] for the place of pivot: after all
\* elements equal to it
RECURSIVE InsertionPoint(_, _, _, _)
InsertionPoint(s, l, r, pivot) ==
    IF l >= r THEN l
    ELSE LET p == l + ((r - l) \div 2) IN
         IF Less(pivot, s[p]) THEN InsertionPoint(s, l, p, pivot)
         ELSE InsertionPoint(s, p + 1, r, pivot)

InsertAtOverwrite(s, at, i) ==
    [x \in 1..Len(s) |-> IF x = at THEN s[i] ELSE s[x]]

\* move s[i] to position at, shifting s[at .. i - 1] one place up
InsertAt(s, at, i) ==
    [x \in 1..Len(s) |->
        IF x = at THEN s[i]
        ELSE IF x > at /\ x <= i THEN s[x - 1]
        ELSE s[x]]

\* binary insertion sort of s[l .. hi], whose prefix s[l .. start - 1] is
\* sorted: s[start] is moved to its insertion point, then the rest is sorted
\* (the singleton sets make each insertion be computed once)
RECURSIVE BinarySort(_, _, _, _)
BinarySort(s, l, hi, start) ==
    IF start > hi THEN s
    ELSE LET at == {InsertionPoint(s, l, start, s[start])}
             next == {InsertAt(s, i, start) : i \in at}
         IN CHOOSE r \in {BinarySort(t, l, hi, start + 1) : t \in next} : TRUE

Min(x, y) == IF x < y THEN x ELSE y

GoesBeforeSwapped(e, x, strict) == IF strict THEN ~Less(x, e) ELSE Less(e, x)

\* the run's element e is placed before x: an element of the right run only
\* when it is strictly less, an element of the left run also when it is equal
GoesBefore(e, x, strict) == IF strict THEN Less(e, x) ELSE ~Less(x, e)

\* binary search in r[l + 1 .. h] for the merge point of x
RECURSIVE GallopSearch(_, _, _, _, _)
GallopSearch(r, x, strict, l, h) ==
    IF l >= h THEN l
    ELSE LET m == l + ((h - l) \div 2) IN
         IF GoesBefore(r[m + 1], x, strict)
         THEN GallopSearch(r, x, strict, m + 1, h)
         ELSE GallopSearch(r, x, strict, l, m)

\* "Uses binary search to find merge points": how many leading elements of
\* the run r are placed before x
GallopCount(r, x, strict) == GallopSearch(r, x, strict, 0, Len(r))

RightWinsTies(l, r) == ~Less(l, r)

RightWinsNever(l, r) == FALSE

\* the right run's element goes first only when it is strictly less: ties
\* resolve to the left (earlier) run
RightWins(l, r) == Less(r, l)

\* stable merge of adjacent sorted runs l and r; side and wins count the
\* current streak; after more than MIN_GALLOP wins of one side the merge
\* gallops: it copies in bulk all of that side that precedes the other
\* side's next element
RECURSIVE MergeRuns(_, _, _, _, _)
MergeRuns(l, r, out, side, wins) ==
    IF l = <<>> THEN out \o r
    ELSE IF r = <<>> THEN out \o l
    ELSE IF wins > MIN_GALLOP THEN
        IF side = "left"
        THEN LET k == GallopCount(l, r[1], FALSE) IN
             MergeRuns(SubSeq(l, k + 1, Len(l)), r, out \o SubSeq(l, 1, k), "none", 0)
        ELSE LET k == GallopCount(r, l[1], TRUE) IN
             MergeRuns(l, SubSeq(r, k + 1, Len(r)), out \o SubSeq(r, 1, k), "none", 0)
    ELSE IF RightWins(l[1], r[1])
         THEN MergeRuns(l, Tail(r), Append(out, r[1]), "right",
                        IF side = "right" THEN wins + 1 ELSE 1)
    ELSE MergeRuns(Tail(l), r, Append(out, l[1]), "left",
                   IF side = "left" THEN wins + 1 ELSE 1)

\* the same merge with galloping omitted
RECURSIVE MergeRunsPlain(_, _, _)
MergeRunsPlain(l, r, out) ==
    IF l = <<>> THEN out \o r
    ELSE IF r = <<>> THEN out \o l
    ELSE IF RightWins(l[1], r[1])
         THEN MergeRunsPlain(l, Tail(r), Append(out, r[1]))
    ELSE MergeRunsPlain(Tail(l), r, Append(out, l[1]))

\* the list s after the plain merge of the runs at stack positions i and i + 1
PlainMergeAt(s, stack, i) ==
    LET r1 == stack[i]
        r2 == stack[i + 1]
        m == MergeRunsPlain(SubSeq(s, r1.base, r1.base + r1.len - 1),
                            SubSeq(s, r2.base, r2.base + r2.len - 1), <<>>)
    IN SubSeq(s, 1, r1.base - 1) \o m
           \o SubSeq(s, r1.base + r1.len + r2.len, Len(s))

\* merge the runs at stack positions i and i + 1
MergeAt(s, stack, i) ==
    LET r1 == stack[i]
        r2 == stack[i + 1]
        m == MergeRuns(SubSeq(s, r1.base, r1.base + r1.len - 1),
                       SubSeq(s, r2.base, r2.base + r2.len - 1), <<>>, "none", 0)
    IN [arr |-> SubSeq(s, 1, r1.base - 1) \o m
                    \o SubSeq(s, r1.base + r1.len + r2.len, Len(s)),
        stack |-> [x \in 1..(Len(stack) - 1) |->
                    IF x < i THEN stack[x]
                    ELSE IF x = i THEN [base |-> r1.base, len |-> r1.len + r2.len]
                    ELSE stack[x + 1]]]

\* the stack position to merge at while the invariants
\*   runlen[i-3] > runlen[i-2] + runlen[i-1]  and  runlen[i-2] > runlen[i-1]
\* are violated at the top of the stack; 0 when they hold
CollapseAt(stack) ==
    LET n == Len(stack) IN
    IF n >= 3 /\ stack[n - 2].len <= stack[n - 1].len + stack[n].len
    THEN (IF stack[n - 2].len < stack[n].len THEN n - 2 ELSE n - 1)
    ELSE IF n >= 2 /\ stack[n - 1].len <= stack[n].len THEN n - 1
    ELSE 0

Tag(ks) == [i \in 1..Len(ks) |-> <<ks[i], i>>]

\* the tutorials' own inputs
TimsortExample == <<5, 2, 4, 6, 1, 3, 8, 7, 9>>
RunsExample == <<1, 2, 3, 7, 6, 5, 4, 10, 11, 12>>
PeopleExample == <<25, 30, 25, 30>>
\* a long run that wins more than MIN_GALLOP times in a row
GallopExample == <<2, 3, 4, 5, 6, 7, 8, 9, 10, 1, 11>>

SortInputs ==
    UNION {[1..n -> 1..MaxSortKey] : n \in 0..MaxSortLen}
        \cup {TimsortExample, RunsExample, PeopleExample, GallopExample}

\* a run long enough to win more than MIN_GALLOP times in a row, with two
\* elements after it or before it
GallopRun == <<2, 3, 4, 5, 6, 7, 8, 9, 10, 11, 12, 13>>
GallopInputs ==
    {GallopRun \o <<x, y>> : x, y \in 1..MaxGallopKey}
        \cup {<<x, y>> \o GallopRun : x, y \in 1..MaxGallopKey}

SortIdle ==
    /\ data = <<>>
    /\ pending = <<>>
    /\ lo = 1
    /\ minrun = 0
    /\ pc = "idle"
    /\ input = <<>>
    /\ first = <<>>
    /\ round = 0
    /\ cmp = "lt"
    /\ plain = <<>>

\* sorted(x): the list is copied and the copy sorted
SortInit ==
    /\ input \in {Tag(ks) : ks \in SortInputs}
    /\ data = input
    /\ pending = <<>>
    /\ lo = 1
    /\ minrun \in MinRunChoices(Len(input))
    /\ pc = "run"
    /\ first = <<>>
    /\ round = 1
    /\ cmp = "lt"
    /\ plain = input

\* the start of a sort of a list of n elements: the minimum run length is
\* calculated from n
SortStart(n) ==
    /\ pc = "idle"
    /\ input' = Tag([i \in 1..n |-> 1])
    /\ data' = input'
    /\ plain' = input'
    /\ pending' = <<>>
    /\ lo' = 1
    /\ minrun' = MinRun(n)
    /\ pc' = "run"
    /\ first' = <<>>
    /\ round' = 1
    /\ cmp' = "lt"

AnyInputs == {Tag(ks) : ks \in SortInputs \cup GallopInputs}

\* sort(sequence, comparator): any comparator, short inputs and inputs that
\* gallop
SortCall ==
    /\ pc = "idle"
    /\ input' \in AnyInputs
    /\ data' = input'
    /\ plain' = input'
    /\ pending' = <<>>
    /\ lo' = 1
    /\ minrun' \in MinRunChoices(Len(input'))
    /\ pc' = "run"
    /\ first' = <<>>
    /\ round' = 1
    /\ cmp' \in Comparators

\* the list made of one ascending run 1..lens[i] for each i: every run ends
\* where the next one starts lower
RECURSIVE RunsInput(_)
RunsInput(lens) ==
    IF lens = <<>> THEN <<>>
    ELSE [k \in 1..Head(lens) |-> k] \o RunsInput(Tail(lens))

\* lists of five runs, two long ones followed by three short ones
StackRunLengths ==
    {<<a, b, 3, 2, 4>> : a \in MinLongRun..MaxLongRun, b \in 9..11}

\* sorted(x) of a list of several natural runs
SortRunsCall ==
    /\ pc = "idle"
    /\ \E lens \in StackRunLengths :
          /\ input' = Tag(RunsInput(lens))
          /\ minrun' = MinRun(Len(RunsInput(lens)))
    /\ data' = input'
    /\ plain' = input'
    /\ pending' = <<>>
    /\ lo' = 1
    /\ pc' = "run"
    /\ first' = <<>>
    /\ round' = 1
    /\ cmp' = "lt"

\* the list s with its run detected from l on reversed if decreasing and
\* extended to minrun by binary insertion; len is the run's length
RunStep(s, l, run) ==
    LET rev == IF run.desc THEN ReverseSlice(s, l, run.len) ELSE s
        force == Min(minrun, Len(s) - l + 1)
    IN [arr |-> IF run.len < minrun
                THEN BinarySort(rev, l, l + force - 1, l + run.len)
                ELSE rev,
        len |-> IF run.len < minrun THEN force ELSE run.len]

\* one turn of the main loop: find the next run, reverse it if decreasing,
\* extend it to minrun by binary insertion, push it
NextRun ==
    /\ pc = "run"
    /\ lo <= Len(data)
    /\ \E run \in {CountRun(data, lo)}, prun \in {CountRun(plain, lo)} :
       \E r \in {RunStep(data, lo, run)}, p \in {RunStep(plain, lo, prun)} :
          /\ data' = r.arr
          /\ pending' = Append(pending, [base |-> lo, len |-> r.len])
          /\ lo' = lo + r.len
          /\ plain' = p.arr
    /\ pc' = "collapse"
    /\ UNCHANGED <<minrun, input, first, round, cmp>>

\* merge while the stack invariants are violated
MergeCollapse ==
    /\ pc = "collapse"
    /\ IF CollapseAt(pending) # 0
       THEN \E m \in {MergeAt(data, pending, CollapseAt(pending))} :
            /\ data' = m.arr
            /\ pending' = m.stack
            /\ plain' = PlainMergeAt(plain, pending, CollapseAt(pending))
            /\ UNCHANGED pc
       ELSE /\ pc' = "run"
            /\ UNCHANGED <<data, pending, plain>>
    /\ UNCHANGED <<lo, minrun, input, first, round, cmp>>

\* the input is exhausted: merge the two topmost runs until one remains
MergeForceCollapse ==
    /\ pc = "run"
    /\ lo > Len(data)
    /\ IF Len(pending) > 1
       THEN \E m \in {MergeAt(data, pending, Len(pending) - 1)} :
            /\ data' = m.arr
            /\ pending' = m.stack
            /\ plain' = PlainMergeAt(plain, pending, Len(pending) - 1)
            /\ UNCHANGED <<pc, first>>
       ELSE /\ pc' = "done"
            /\ first' = IF round = 1 THEN data ELSE first
            /\ UNCHANGED <<data, pending, plain>>
    /\ UNCHANGED <<lo, minrun, input, round, cmp>>

\* sort the result again
SortAgain ==
    /\ pc = "done"
    /\ round = 1
    /\ round' = 2
    /\ pending' = <<>>
    /\ lo' = 1
    /\ pc' = "run"
    /\ UNCHANGED <<data, minrun, input, first, cmp, plain>>

\* the list left by a merge that started without its temporary buffer: the
\* first element of the right run is written over the left run's first
MergeAtUnbuffered(s, stack, i) ==
    [s EXCEPT ![stack[i].base] = s[stack[i + 1].base]]

\* the list left by a merge whose temporary buffer could not be allocated:
\* the buffer is allocated before anything is copied, so nothing has moved
MergeAtOutOfMemory(s, stack, i) == s

\* the stack position of the merge the sort is about to perform; 0 when it
\* is not about to merge
MergeDue ==
    IF pc = "collapse" THEN CollapseAt(pending)
    ELSE IF pc = "run" /\ lo > Len(data) /\ Len(pending) > 1
         THEN Len(pending) - 1
    ELSE 0

\* a merge cannot allocate its temporary buffer: the sort stops and reports
\* OutOfMemory
MergeOutOfMemory ==
    /\ MergeDue # 0
    /\ data' = MergeAtOutOfMemory(data, pending, MergeDue)
    /\ pc' = "OutOfMemory"
    /\ UNCHANGED <<pending, lo, minrun, input, first, round, cmp, plain>>

(***************************************************************************)
(* Context managers: with MyContext() as r, with my_manager() as r         *)
(***************************************************************************)
ContextManagers == {"MyContext", "my_manager"}

\* what __enter__, or the generator up to its yield, prints
SetupLine(kind) == IF kind = "MyContext" THEN "Entering..." ELSE "Setup"

\* what __exit__, or the generator after its yield, prints
CleanupLine(kind) ==
    IF kind = "MyContext" THEN "Exiting... Cleaning up" ELSE "Cleanup"

WithInit == withs = <<>>

\* the statement under way, if any
Current == withs[Len(withs)]
Under(pcs) == withs # <<>> /\ Current.pc \in pcs

\* with kind() as r: __enter__ runs, or the generator runs up to its yield;
\* both give "Resource"
WithEnter(kind) ==
    /\ Len(withs) < MaxWiths
    /\ IF withs = <<>> THEN TRUE ELSE Current.pc = "left"
    /\ withs' = Append(withs, [kind |-> kind, pc |-> "block",
                               out |-> <<SetupLine(kind)>>, error |-> FALSE])

\* the block runs to its end: print("Using:", r)
BlockReturns ==
    /\ Under({"block"})
    /\ withs' = [withs EXCEPT ![Len(withs)] =
                    [@ EXCEPT !.pc = "returned",
                              !.out = Append(@, "Using: Resource")]]

\* the block raises an error
BlockRaises ==
    /\ Under({"block"})
    /\ withs' = [withs EXCEPT ![Len(withs)] = [@ EXCEPT !.pc = "raised"]]

\* leaving the block.  MyContext: __exit__ is called with the error or with
\* None, prints, and returns None, so an error goes on to the caller.
\* my_manager: after a normal end the generator is resumed and prints; an
\* error is raised inside the generator at its yield, which no try encloses,
\* so the generator ends there and the line after the yield is not run
WithExit(w) ==
    IF w.kind = "MyContext" \/ w.pc = "returned"
    THEN [w EXCEPT !.pc = "left", !.out = Append(@, CleanupLine(w.kind)),
                   !.error = (w.pc = "raised")]
    ELSE [w EXCEPT !.pc = "left", !.error = TRUE]

WithLeave ==
    /\ Under({"returned", "raised"})
    /\ withs' = [withs EXCEPT ![Len(withs)] = WithExit(@)]

\* the cleanup step of statement w has run
Cleaned(w) == \E j \in 1..Len(w.out) : w.out[j] = CleanupLine(w.kind)

(***************************************************************************)
(* Specifications                                                          *)
(***************************************************************************)
vars == <<dictVars, listVars, sortVars, setVars, withVars>>

\* the dict under a few colliding keys, with removals
Init == DictInit /\ ListInit /\ SortIdle /\ SetInit /\ WithInit

Next ==
    \/ \E k \in SmallKeys, v \in Values :
          Insert(k, v, MaxEntries) /\ UNCHANGED <<listVars, sortVars, setVars, withVars>>
    \/ \E k \in SmallKeys : Get(k) /\ UNCHANGED <<listVars, sortVars, setVars, withVars>>
    \/ \E k \in SmallKeys : Remove(k) /\ UNCHANGED <<listVars, sortVars, setVars, withVars>>
    \/ Clear /\ UNCHANGED <<listVars, sortVars, setVars, withVars>>

Spec == Init /\ [][Next]_vars

\* the dict grown by the tutorial's loop, d[i] = i * 2 for i = 0, 1, ..., with
\* any lookups and removals between its turns; Clear starts the loop again
GrowNext ==
    \/ \E i \in 0..(MaxGrowKey - 1) :
          /\ i = Len(combined)
          /\ Insert(IntKey(i), i * 2, MaxGrowKey)
          /\ UNCHANGED <<listVars, sortVars, setVars, withVars>>
    \/ \E k \in GrowKeys : Get(k) /\ UNCHANGED <<listVars, sortVars, setVars, withVars>>
    \/ \E k \in GrowKeys : Remove(k) /\ UNCHANGED <<listVars, sortVars, setVars, withVars>>
    \/ Clear /\ UNCHANGED <<listVars, sortVars, setVars, withVars>>

SpecGrow == Init /\ [][GrowNext]_vars

\* the list under appends
ListNext ==
    \E x \in Values : ListAppend(x, MaxAppends) /\ UNCHANGED <<dictVars, sortVars, setVars, withVars>>

SpecList == Init /\ [][ListNext]_vars

\* the list under access, assignment, insertion and removal by index, with
\* indices on both sides of its length
ListEditNext ==
    \/ \E i \in 0..(MaxEditLen + 1) :
          ListGet(i) /\ UNCHANGED <<dictVars, sortVars, setVars, withVars>>
    \/ \E i \in 0..(MaxEditLen + 1), x \in Values :
          ListSet(i, x) /\ UNCHANGED <<dictVars, sortVars, setVars, withVars>>
    \/ \E i \in 0..(MaxEditLen + 1), x \in Values :
          ListInsert(i, x, MaxEditLen) /\ UNCHANGED <<dictVars, sortVars, setVars, withVars>>
    \/ \E i \in 0..(MaxEditLen + 1) :
          ListRemove(i) /\ UNCHANGED <<dictVars, sortVars, setVars, withVars>>

SpecListEdit == Init /\ [][ListEditNext]_vars

\* two distinct elements tell a moved element from its neighbour
ListValues == {1, 2}

\* the list under append, insert, remove, assignment and clear, long enough
\* to be reallocated at 0, 4 and 8 elements
ListAllNext ==
    \/ \E x \in ListValues : ListAppend(x, MaxAppends) /\ UNCHANGED <<dictVars, sortVars, setVars, withVars>>
    \/ \E i \in 0..MaxAppends, x \in ListValues :
          ListInsert(i, x, MaxAppends) /\ UNCHANGED <<dictVars, sortVars, setVars, withVars>>
    \/ \E i \in 0..MaxAppends :
          ListRemove(i) /\ UNCHANGED <<dictVars, sortVars, setVars, withVars>>
    \/ \E i \in 0..MaxAppends, x \in ListValues :
          ListSet(i, x) /\ UNCHANGED <<dictVars, sortVars, setVars, withVars>>
    \/ ListClear /\ UNCHANGED <<dictVars, sortVars, setVars, withVars>>

SpecListAll == Init /\ [][ListAllNext]_vars

\* the list grown by the tutorial's loop: for i in range(n): lst.append(i)
ListLoopNext ==
    \E i \in 0..(MaxLoopAppends - 1) :
        /\ i = ob_size
        /\ ListAppend(i, MaxLoopAppends)
        /\ UNCHANGED <<dictVars, sortVars, setVars, withVars>>

SpecListLoop == Init /\ [][ListLoopNext]_vars

\* with-statements of both kinds, one after the other, whose blocks end
\* normally or raise.  A block that was entered ends, and the statement is
\* then left: the interpreter does not stop in between
WithNext ==
    \/ \E kind \in ContextManagers :
          WithEnter(kind) /\ UNCHANGED <<dictVars, listVars, sortVars, setVars>>
    \/ BlockReturns /\ UNCHANGED <<dictVars, listVars, sortVars, setVars>>
    \/ BlockRaises /\ UNCHANGED <<dictVars, listVars, sortVars, setVars>>
    \/ WithLeave /\ UNCHANGED <<dictVars, listVars, sortVars, setVars>>

SpecWith ==
    /\ Init /\ [][WithNext]_vars
    /\ WF_vars((BlockReturns \/ BlockRaises)
                  /\ UNCHANGED <<dictVars, listVars, sortVars, setVars>>)
    /\ WF_vars(WithLeave /\ UNCHANGED <<dictVars, listVars, sortVars, setVars>>)

\* Timsort of every short input, and of its result
SortSpecInit == DictInit /\ ListInit /\ SortInit /\ SetInit /\ WithInit

SortNext ==
    \/ NextRun /\ UNCHANGED <<dictVars, listVars, setVars, withVars>>
    \/ MergeCollapse /\ UNCHANGED <<dictVars, listVars, setVars, withVars>>
    \/ MergeForceCollapse /\ UNCHANGED <<dictVars, listVars, setVars, withVars>>
    \/ SortAgain /\ UNCHANGED <<dictVars, listVars, setVars, withVars>>

SpecSort == SortSpecInit /\ [][SortNext]_vars

\* Timsort of lists of several natural runs
SortRunsNext ==
    \/ SortRunsCall /\ UNCHANGED <<dictVars, listVars, setVars, withVars>>
    \/ SortNext

SpecSortRuns == Init /\ [][SortRunsNext]_vars

\* Timsort when memory may run out at any merge
SortNoMemoryNext ==
    \/ SortNext
    \/ MergeOutOfMemory /\ UNCHANGED <<dictVars, listVars, setVars, withVars>>

SpecSortNoMemory == SortSpecInit /\ [][SortNoMemoryNext]_vars

\* Timsort under any comparator.  The sort is one sequential loop: it takes
\* its next step as long as it has one
SortAnyNext ==
    \/ SortCall /\ UNCHANGED <<dictVars, listVars, setVars, withVars>>
    \/ SortNext

\* the minimum run length of every list of up to MaxRunLen elements
MinRunNext ==
    \E n \in 0..MaxRunLen :
        SortStart(n) /\ UNCHANGED <<dictVars, listVars, setVars, withVars>>

SpecMinRun == Init /\ [][MinRunNext]_vars

SpecSortAny == Init /\ [][SortAnyNext]_vars /\ WF_vars(SortAnyNext)

\* the tutorial's loop when memory may run out at a resize
NoMemoryNext ==
    \/ \E i \in 0..(MaxGrowKey - 1) :
          /\ i = Len(combined)
          /\ Insert(IntKey(i), i * 2, MaxGrowKey)
          /\ UNCHANGED <<listVars, sortVars, setVars, withVars>>
    \/ \E i \in 0..(MaxGrowKey - 1) :
          /\ i = Len(combined)
          /\ InsertOutOfMemory(IntKey(i), i * 2, MaxGrowKey)
          /\ UNCHANGED <<listVars, sortVars, setVars, withVars>>
    \/ \E k \in GrowKeys : Get(k) /\ UNCHANGED <<listVars, sortVars, setVars, withVars>>
    \/ \E k \in GrowKeys : Remove(k) /\ UNCHANGED <<listVars, sortVars, setVars, withVars>>

SpecNoMemory == Init /\ [][NoMemoryNext]_vars

\* the round trip: distinct keys are inserted, then each is removed, in any
\* order, then looked up
RoundTripNext ==
    \/ \E i \in 0..(MaxRoundTrip - 1) :
          /\ i = Len(combined)
          /\ used = Len(combined)
          /\ Insert(IntKey(i), i * 2, MaxRoundTrip)
          /\ UNCHANGED <<listVars, sortVars, setVars, withVars>>
    \/ \E k \in RoundTripKeys :
          /\ shadow[k] # None
          /\ Remove(k)
          /\ UNCHANGED <<listVars, sortVars, setVars, withVars>>
    \/ \E k \in RoundTripKeys :
          /\ used = 0
          /\ Len(combined) > 0
          /\ Get(k)
          /\ UNCHANGED <<listVars, sortVars, setVars, withVars>>

SpecRoundTrip == Init /\ [][RoundTripNext]_vars

\* two sets under add and remove, and the set operations on them
SetNext ==
    \/ \E k \in SetKeys : AddA(k) /\ UNCHANGED <<dictVars, listVars, sortVars, withVars>>
    \/ \E k \in SetKeys : RemoveA(k) /\ UNCHANGED <<dictVars, listVars, sortVars, withVars>>
    \/ \E k \in SetKeys : ContainsA(k) /\ UNCHANGED <<dictVars, listVars, sortVars, withVars>>
    \/ \E k \in SetKeys : AddB(k) /\ UNCHANGED <<dictVars, listVars, sortVars, withVars>>
    \/ \E k \in SetKeys : RemoveB(k) /\ UNCHANGED <<dictVars, listVars, sortVars, withVars>>
    \/ Algebra /\ UNCHANGED <<dictVars, listVars, sortVars, withVars>>

SpecSet == Init /\ [][SetNext]_vars

(***************************************************************************)
(* Claims                                                                  *)
(***************************************************************************)
Present == {k \in DOMAIN shadow : shadow[k] # None}

\* C1: keys() yields exactly the keys currently present, each once, in the
\* order of their first insertion since they were last absent; items() pairs
\* each with its current value.
C1_InsertionOrder ==
    /\ keys(combined) = order
    /\ {order[i] : i \in 1..Len(order)} = Present
    /\ Len(order) = Cardinality(Present)
    /\ \A i \in 1..Len(order) : items(combined)[i] = <<order[i], shadow[order[i]]>>

\* C1 witness: a, b, c inserted, b removed and inserted again: b is last.
C1_Witness ==
    /\ items(combined) = << <<BadHash(1), 1>>, <<IntKey(33), 1>>, <<BadHash(2), 2>> >>
    /\ Len(combined) = 4
    /\ combined[2] = Tombstone

C3_GetLatest == \A k \in Present : get(k) = shadow[k]

\* C3 witness: two keys of equal hash hold different values behind a slot
\* left by a removal.
C3_Witness ==
    /\ shadow[BadHash(1)] = 1
    /\ shadow[BadHash(2)] = 2
    /\ Hash(BadHash(1)) = Hash(BadHash(2))
    /\ index_table[BitAnd(Hash(BadHash(1)), Mask(cap_idx))] = Deleted

\* C8: every dict operation returns: no probe walk runs for ever.
C8_Terminates == ~hung

IsPowerOfTwo(n) == \E e \in 0..n : 2 ^ e = n

\* C9: the index table's size is a power of two and at least 8.
C9_PowerOfTwo == IsPowerOfTwo(cap_idx) /\ cap_idx >= 8

\* the slots the probe walk of key visits before its first Empty slot
RECURSIVE Chain(_, _, _, _, _, _)
Chain(idx, mask, j, perturb, n, acc) ==
    IF idx[j] = Empty \/ n > mask + 1 THEN acc
    ELSE Chain(idx, mask, NextSlot(j, perturb, mask),
               ShiftRight(perturb, PERTURB_SHIFT),
               IF perturb = 0 THEN n + 1 ELSE n, acc \cup {j})

ProbeChain(key) ==
    Chain(index_table, Mask(cap_idx), BitAnd(Hash(key), Mask(cap_idx)),
          Hash(key), 0, {})

SlotsOf(key) ==
    {j \in DOMAIN index_table :
        /\ index_table[j] >= 0
        /\ EntryAt(combined, index_table[j]).state = "Live"
        /\ EntryAt(combined, index_table[j]).key = key}

\* C10: every live key has exactly one slot referring to its live entry, that
\* slot is on the key's probe walk before any Empty slot, and no slot refers
\* to a tombstone (or outside the combined table).
C10_IndexInvariant ==
    /\ \A j \in DOMAIN index_table :
          index_table[j] >= 0 =>
             /\ index_table[j] < Len(combined)
             /\ EntryAt(combined, index_table[j]).state = "Live"
    /\ \A i \in 1..Len(combined) :
          combined[i].state = "Live" =>
             /\ Cardinality(SlotsOf(combined[i].key)) = 1
             /\ SlotsOf(combined[i].key) \subseteq ProbeChain(combined[i].key)
             /\ \E j \in DOMAIN index_table : index_table[j] = i - 1

\* C10 witness: a live key sits behind a Deleted slot of its own walk.
C10_Witness ==
    \E k \in Present :
        \E j \in ProbeChain(k) : index_table[j] = Deleted /\ SlotsOf(k) # {}

\* C4: after any sequence of appends, len() is the number of calls and
\* get(i) is the i-th appended value.
C4_AppendGet ==
    /\ ob_size = Len(appended)
    /\ \A i \in 0..(ob_size - 1) : list_get(i) = appended[i + 1]

\* C4 witness: appends that reallocated three times.
C4_Witness == ob_size = 9 /\ allocated = 16

Sorted(s) == \A i \in 1..(Len(s) - 1) : LessOrEqual(s[i], s[i + 1])
Elements(s) == {s[i] : i \in 1..Len(s)}
KeysOf(s) == [i \in 1..Len(s) |-> s[i][1]]

\* C5: a finished sort leaves a permutation of the input in non-descending
\* order; the tutorial's example comes out as 1..9.
C5_Sorted ==
    pc = "done" =>
        /\ Sorted(data)
        /\ Len(data) = Len(input)
        /\ Elements(data) = Elements(input)
        /\ (KeysOf(input) = TimsortExample => KeysOf(data) = <<1, 2, 3, 4, 5, 6, 7, 8, 9>>)

\* C5 witness: the tutorial's example, sorted by merging.
C5_Witness ==
    /\ pc = "done" /\ round = 1 /\ minrun = 1
    /\ KeysOf(input) = TimsortExample
    /\ KeysOf(data) = <<1, 2, 3, 4, 5, 6, 7, 8, 9>>

\* C6: elements of equal key keep their input order.
C6_Stable ==
    pc = "done" =>
        \A i, j \in 1..Len(data) :
            (i < j /\ data[i][1] = data[j][1]) => data[i][2] < data[j][2]

\* C6 witness: equal keys pass through a reversal and merges (minrun 1), or
\* through binary insertion (minrun = n), and the result differs from the input.
C6_Witness ==
    pc = "done" /\ round = 1 /\ KeysOf(input) = <<2, 1, 2, 1, 1>> /\ minrun = 5

\* C7: sorting the sorted result changes nothing.
C7_Idempotent == (pc = "done" /\ round = 2) => data = first

\* C7 witness: the second sort of an input the first sort had to reorder.
C7_Witness == pc = "done" /\ round = 2 /\ first # input /\ Len(input) = MaxSortLen

\* C11: inserting n distinct keys and then removing every one of them, in any
\* order, returns each time, leaves len() = 0, and get of any of them then
\* returns None.
C11_RoundTrip ==
    /\ ~hung
    /\ Present = {} => (used = 0 /\ \A k \in RoundTripKeys : get(k) = None)

\* the members a set holds, read by iterating it
Members(s) == {SetItems(s)[i] : i \in 1..Len(SetItems(s))}

\* C12: A | B and B | A return sets of the same elements, and so do A & B and
\* B & A.
C12_Commutative ==
    algebra.done =>
        /\ algebra.union.ok /\ algebra.unionRev.ok
        /\ Members(algebra.union.set) = Members(algebra.unionRev.set)
        /\ algebra.inter.ok /\ algebra.interRev.ok
        /\ Members(algebra.inter.set) = Members(algebra.interRev.set)

\* C13: len(A | B) + len(A & B) = len(A) + len(B).
C13_InclusionExclusion ==
    algebra.done =>
        /\ algebra.union.ok /\ algebra.inter.ok
        /\ SetLen(algebra.union.set) + SetLen(algebra.inter.set)
              = SetLen(set_a) + SetLen(set_b)

\* C14: A - B returns exactly the elements of A that are not in B, so it
\* shares no element with B; the same for B - A.
C14_Difference ==
    algebra.done =>
        /\ algebra.diff.ok
        /\ Members(algebra.diff.set) = members_a \ members_b
        /\ Members(algebra.diff.set) \cap Members(set_b) = {}
        /\ algebra.diffRev.ok
        /\ Members(algebra.diffRev.set) = members_b \ members_a
        /\ Members(algebra.diffRev.set) \cap Members(set_a) = {}

\* C15: after any adds and removes, k in A is true exactly for the keys added
\* and not removed since; add(k) returns TRUE exactly for a non-member and
\* remove(k) returns TRUE exactly for a member.
C15_Membership ==
    ~set_hung =>
        \A k \in SetKeys :
            /\ SetContains(set_a, k).ok
            /\ SetContains(set_a, k).ret = (k \in members_a)
            /\ SetAdd(set_a, k).ok
            /\ SetAdd(set_a, k).ret = (k \notin members_a)
            /\ SetRemove(set_a, k).ok
            /\ SetRemove(set_a, k).ret = (k \in members_a)

\* C16: an insert that reports OutOfMemory leaves the map correct: every
\* present key is retrievable with its value, in insertion order, the index
\* invariant holds and so does the load-factor bound.
C16_OutOfMemorySafe ==
    ret = OutOfMemory =>
        /\ \A k \in Present : get(k) = shadow[k]
        /\ keys(combined) = order
        /\ C10_IndexInvariant
        /\ 3 * used <= 2 * cap_idx

\* the list's elements: what its first len slots hold
Contents ==
    [j \in 1..ob_size |-> IF j \in DOMAIN ob_item THEN ob_item[j] ELSE Unused]

C18_AbsenceNoFailure ==
    ~hung =>
        \A k \in SmallKeys \ Present :
            /\ MapGet(TheMap, k) = [ok |-> TRUE, found |-> FALSE, value |-> None]
            /\ MapRemove(TheMap, k)
                  = [ok |-> TRUE, map |-> TheMap, found |-> FALSE, old |-> None]

\* every index the sort holds lies in the list
InBounds ==
    /\ Len(data) = Len(input)
    /\ lo >= 1 /\ lo <= Len(data) + 1
    /\ \A i \in 1..Len(pending) :
          /\ pending[i].base >= 1 /\ pending[i].len >= 1
          /\ pending[i].base + pending[i].len <= lo

\* C19: under any comparator the sort finishes, keeps every index inside the
\* list, and leaves a permutation of its input.
C19_ArbitraryComparator ==
    /\ [](InBounds /\ (pc = "done" => Elements(data) = Elements(input)))
    /\ <>(pc = "done")

\* C19 witness: a sort under the comparator that is not transitive finished
\* after merges, and its result is not in key order.
C19_Witness ==
    /\ pc = "done" /\ cmp = "cyclic" /\ minrun = 1
    /\ Len(input) = Len(GallopRun) + 2 /\ ~Sorted(data)

\* C20: the sort with galloping and the sort without it hold the same list
\* at every step and so return the same result, for every input and comparator.
C20_GallopingSame == plain = data

\* C20 as amended: for every input and every comparator that is a consistent
\* order, the sort with galloping and the sort without it hold the same list
\* at every step and return the same result.
C20_GallopingSameConsistent == cmp \in ConsistentComparators => plain = data

\* C20 witness: under the comparator that halves the keys, a sort whose merge
\* took more than MIN_GALLOP elements in a row from the long run has finished.
C20_Witness ==
    /\ pc = "done" /\ cmp = "half" /\ minrun = 1
    /\ KeysOf(input) = GallopRun \o <<14, 12>>

\* a step that moves the list to a newly allocated array
Reallocates == allocated' # allocated /\ allocated' # 0

C22_CleanupAlways ==
    \A i \in 1..MaxWiths :
        (Len(withs) >= i) ~> (Len(withs) >= i /\ Cleaned(withs[i]))

\* "For small lists: 0, 4, 8, 16, 25, 35, 46, 58, 72, 88..."
SmallListCapacities == <<0, 4, 8, 16, 25, 35, 46, 58, 72, 88>>

\* the first of these capacities that holds n elements
CapacityFor(n) ==
    LET at == CHOOSE j \in 1..Len(SmallListCapacities) :
                 /\ SmallListCapacities[j] >= n
                 /\ \A h \in 1..(j - 1) : SmallListCapacities[h] < n
    IN SmallListCapacities[at]

NearPowerOfTwo(n, m) ==
    \E k \in 0..8 : (m - 1) * (2 ^ k) < n /\ n <= m * (2 ^ k)

\* C24: the minimum run length calculated from n is n when n < 64, and for
\* n >= 64 lies in 32..64 with n / minrun close to a power of two and not
\* above it.
C24_MinRunRange ==
    pc = "run" =>
        LET n == Len(input) IN
        IF n < 64 THEN minrun = n
        ELSE minrun >= 32 /\ minrun <= 64 /\ NearPowerOfTwo(n, minrun)

\* "Run 1: [1, 2, 3] (ascending)", "Run 2: [7, 6, 5, 4] (descending, will be
\* reversed)", "Run 3: [10, 11, 12] (ascending)": by the position a run starts
\* at
ThreeRuns ==
    (1 :> [len |-> 3, desc |-> FALSE]) @@ (4 :> [len |-> 4, desc |-> TRUE])
        @@ (8 :> [len |-> 3, desc |-> FALSE])

\* C25: in the sort of [1, 2, 3, 7, 6, 5, 4, 10, 11, 12] with natural runs,
\* run detection starts at positions 1, 4 and 8 only and finds [1, 2, 3]
\* ascending, [7, 6, 5, 4] descending and [10, 11, 12] ascending.
C25_ThreeRuns ==
    (KeysOf(input) = RunsExample /\ round = 1 /\ minrun = 1
        /\ pc = "run" /\ lo <= Len(data)) =>
            (lo \in DOMAIN ThreeRuns /\ CountRun(data, lo) = ThreeRuns[lo])

\* a step of insert that replaced the index by a larger one and returned
Resized == cap_idx' > cap_idx /\ ~hung'

\* C26: immediately after any resize the new index holds no Deleted slot,
\* every live key is found by its probe walk, and keys() yields the keys of
\* before the resize, in the same order, followed by the key whose insert
\* caused the resize.
C26_ResizePurges ==
    [][Resized =>
          /\ \A j \in DOMAIN index_table' : index_table'[j] # Deleted
          /\ \A k \in Present' : get(k)' = shadow'[k]
          /\ C10_IndexInvariant'
          /\ Len(keys(combined)') = Len(keys(combined)) + 1
          /\ SubSeq(keys(combined)', 1, Len(keys(combined))) = keys(combined)]_vars

\* C26 witness: the index was just rebuilt at 12 slots while the combined
\* table holds a tombstone, whose Deleted slot the rebuild dropped.
C26_Witness ==
    /\ cap_idx = 12 /\ used = 6 /\ Len(combined) = 7
    /\ \A j \in DOMAIN index_table : index_table[j] # Deleted

\* s holds every element of t exactly once
HoldsEachOnce(s, t) ==
    /\ Len(s) = Len(t)
    /\ \A i \in 1..Len(t) : Cardinality({j \in 1..Len(s) : s[j] = t[i]}) = 1

\* C27: when the temporary buffer of a merge cannot be allocated, the sort
\* reports OutOfMemory, the step leaves the list as it was before that merge,
\* and the list holds every input element exactly once.
C27_MergeOutOfMemory ==
    /\ [](pc = "OutOfMemory" => HoldsEachOnce(data, input))
    /\ [][(pc # "OutOfMemory" /\ pc' = "OutOfMemory") => data' = data]_vars

\* C27 witness: the sort of the tutorial's list ran out of memory at a merge
\* after it had reordered the list.
C27_Witness ==
    /\ pc = "OutOfMemory" /\ KeysOf(input) = TimsortExample
    /\ data # input /\ Len(pending) >= 2

\* the merge invariants at every depth of a stack of pending runs
StackInvariants(stack) ==
    \A i \in 1..Len(stack) :
        /\ i + 2 <= Len(stack) => stack[i].len > stack[i + 1].len + stack[i + 2].len
        /\ i + 1 <= Len(stack) => stack[i].len > stack[i + 1].len

\* C28: when the collapse loop that follows the push of a run has finished,
\* the merge invariants hold at every depth of the stack of pending runs.
C28_StackInvariants ==
    [][(pc = "collapse" /\ pc' = "run") => StackInvariants(pending')]_vars

\* C29: in every reachable state of a map the index holds at least one Empty
\* slot: the Deleted slots left by remove never fill it between resizes.
C29_EmptySlotRemains == \E j \in DOMAIN index_table : index_table[j] = Empty

\* the step is remove(i) right after a successful insert(i, x)
RemoveUndoesInsert ==
    /\ list_call.op = "insert" /\ list_call.err = "none"
    /\ list_call'.op = "remove" /\ list_call'.i = list_call.i

\* C30: for every i <= len and x, insert(i, x) followed by remove(i) returns
\* x and leaves the list with the elements it had before the insert, in
\* their order; neither operation changes an element at an index below i.
C30_InsertThenRemove ==
    /\ [][RemoveUndoesInsert =>
            /\ list_call'.err = "none"
            /\ list_call'.x = list_call.x
            /\ Contents' = list_call.was
            /\ \A j \in 1..list_call.i : ob_item'[j] = ob_item[j]]_vars
    /\ [][(list_call'.op = "insert" /\ list_call'.err = "none"
              /\ ob_size' = ob_size + 1) =>
            \A j \in 1..list_call'.i : ob_item'[j] = ob_item[j]]_vars

\* C30 witness: the element inserted at index 2 of a full list of eight, which
\* was reallocated for it, has been removed again.
C30_Witness ==
    /\ list_call.op = "remove" /\ list_call.i = 2 /\ list_call.err = "none"
    /\ ob_size = 8 /\ allocated = 16

====
